---- MODULE Spec2Model ----
(***************************************************************************)
(* b3sum-ng: the adaptive concurrency scheduler of src/lib.rs and          *)
(* src/main.rs.  One dispatcher (the closure of rayon::scope in main)      *)
(* walks the input list and calls do_checksum for each path; do_checksum   *)
(* takes units of the semaphore io_lock, hashes large files itself and     *)
(* spawns one background task per small file.                              *)
(*                                                                         *)
(* A file is described by what the code can observe of it: its path,       *)
(* whether it opens, its length, the byte offset at which a read() fails   *)
(* (-1: never), whether Mmap::map succeeds and the most bytes one read()    *)
(* returns (a pipe gives short reads).  A digest is modelled by             *)
(* the name of the content and the number of bytes the hasher was fed in   *)
(* order from offset 0 (-1 once a chunk is fed out of place).              *)
(*                                                                         *)
(* Not modelled: a file truncated while memory-mapped (SIGBUS, which the   *)
(* program documents as a possible crash).                                 *)
(***************************************************************************)
EXTENDS Integers, Sequences, FiniteSets, TLC

\* ---------------------------------------------------------------- bounds
MaxInputs == 3
MaxJobs == 2
MaxThreads == 3
\* the longest input list of the runs checked for liveness
MaxFairInputs == 2
\* the longest content hashed by the hashing tests, in read buffers
MaxChunks == 10

\* ----------------------------------------------------- program constants
\* lib.rs:81  filesize > 131_072
LargeThreshold == 131072
\* lib.rs:124 vec![0u8; 2_097_152]
ReadBufLen == 2097152
\* lib.rs:115 buf.chunks(4_194_304)
MapChunkLen == 4194304

VARIABLES
    paths,          \* main.rs:19  the input list (a sequence of files)
    max_job_count,  \* main.rs:20  opts.job_count
    use_mmap,       \* main.rs:22  opts.mmap
    num_threads,    \* size of Rayon's worker pool
    io_lock,        \* main.rs:21  the semaphore's count of available units
    idx,            \* position of `for path in paths`
    pc,             \* where the dispatcher is inside the loop body
    held,           \* per input: units acquired for it and not yet released
    task,           \* per input: state of the task spawned at lib.rs:89
    checksum,       \* per input: the value of `checksum` once computed
    strategy,       \* per input: the hashing code that computed `checksum`
    ret,            \* per input: what do_checksum returned
    reports         \* per input: the outcomes printed for it, in order

vars == <<paths, max_job_count, use_mmap, num_threads, io_lock, idx, pc,
          held, task, checksum, strategy, ret, reports>>

config == <<paths, max_job_count, use_mmap, num_threads>>

\* ------------------------------------------------------------ the inputs
File(path, openOk, len, failAt, mapOk) ==
    [path |-> path, openOk |-> openOk, len |-> len, failAt |-> failAt, mapOk |-> mapOk,
     readMax |-> ReadBufLen]

\* a source whose read() returns at most readMax bytes at a time
ShortReads(f, readMax) == [f EXCEPT !.readMax = readMax]

Files ==
    { ShortReads(File("-", TRUE, 11, -1, FALSE), 4),
      File("missing",  FALSE, 0,                  -1,      FALSE),
      File("empty",    TRUE,  0,                  -1,      TRUE),
      File("smallBad", TRUE,  LargeThreshold,     0,       TRUE),
      File("large",    TRUE,  LargeThreshold + 1, -1,      TRUE),
      File("largeBad", TRUE,  2 * ReadBufLen + 5, ReadBufLen + 7, FALSE),
      File("noMap",    TRUE,  MapChunkLen + 1,    -1,      FALSE) }

\* Faulty variant: the marker is not recognised; "-" is opened as a file.
IsStdinNever(f) == FALSE

\* lib.rs:68-69  str == "-"
IsStdin(f) == f.path = "-"

Min(a, b) == IF a < b THEN a ELSE b

\* --------------------------------------------------------------- results
NoResult == [ok |-> FALSE, name |-> "", bytes |-> 0, err |-> "none"]
Ok(name, h) == [ok |-> TRUE, name |-> name, bytes |-> h, err |-> "none"]
Err(e) == [ok |-> FALSE, name |-> "", bytes |-> 0, err |-> e]

\* ---------------------------------------------------------------- hasher
HasherNew == 0

\* Faulty variant: only the first chunk given to the hasher counts.
UpdateFirstOnly(h, off, n) == IF off = 0 THEN n ELSE h

\* hasher.update(&bytes[off .. off+n])
Update(h, off, n) == IF h = off THEN h + n ELSE -1

\* a read() of up to n bytes at offset off fails
ReadFails(f, off, n) ==
    /\ f.failAt # -1
    /\ f.failAt >= off
    /\ f.failAt < off + (IF n = 0 THEN 1 ELSE n)

\* lib.rs:100-104
b3sum_small(f) ==
    IF f.failAt # -1 THEN Err("read")
    ELSE Ok(f.path, Update(HasherNew, 0, f.len))

\* Faulty variant: a failed read ends the loop like the end of the input.
RECURSIVE ReadLoopErrAsEof(_, _, _)
ReadLoopErrAsEof(f, off, h) ==
    LET n == Min(Min(ReadBufLen, f.readMax), f.len - off) IN
    IF ReadFails(f, off, n) \/ n = 0 THEN Ok(f.path, h)
    ELSE ReadLoopErrAsEof(f, off + n, Update(h, off, n))

\* lib.rs:125-131
RECURSIVE ReadLoop(_, _, _)
ReadLoop(f, off, h) ==
    LET n == Min(Min(ReadBufLen, f.readMax), f.len - off) IN
    IF ReadFails(f, off, n) THEN Err("read")
    ELSE IF n = 0 THEN Ok(f.path, h)
    ELSE ReadLoop(f, off + n, Update(h, off, n))

\* Faulty variant: only whole chunks are hashed (chunks_exact).
RECURSIVE MapChunksExact(_, _, _)
MapChunksExact(f, off, h) ==
    IF off + MapChunkLen > f.len THEN Ok(f.path, h)
    ELSE MapChunksExact(f, off + MapChunkLen, Update(h, off, MapChunkLen))

\* lib.rs:115-117
RECURSIVE MapChunks(_, _, _)
MapChunks(f, off, h) ==
    IF off >= f.len THEN Ok(f.path, h)
    ELSE LET n == Min(MapChunkLen, f.len - off) IN
         MapChunks(f, off + n, Update(h, off, n))

\* lib.rs:107-135; isFile distinguishes Input::File from Input::Stream
b3sum_large(f, isFile, mmap) ==
    IF isFile /\ mmap
    THEN IF f.mapOk THEN MapChunks(f, 0, HasherNew) ELSE Err("mmap")
    ELSE ReadLoop(f, 0, HasherNew)

\* lib.rs:109-119  which arm of b3sum_large's match runs
LargeStrategy(isFile, mmap) ==
    IF isFile /\ mmap THEN "chunked_mmap" ELSE "chunked_read"

\* lib.rs:100-104  b3sum_small reads to the end, then hashes in one call
SmallStrategy == "buffered_whole"

\* ----------------------------------------------------------- the semaphore
\* Faulty variant: acquire never waits.
CanAcquireNoWait(count, amount) == TRUE

\* multi_semaphore: acquire_many(amount) returns once count >= amount
CanAcquire(count, amount) == count >= amount

\* Faulty variant: the large job asks for the whole capacity again.
LargeExtraAll(n) == n

\* Faulty variant: the large job asks for nothing more.
LargeExtraNone(n) == 0

\* lib.rs:84  max_job_count as isize - 1
LargeExtra(n) == n - 1

\* Faulty variant: every file is handed to a background task.
IsLargeNever(filesize) == FALSE

\* Faulty variant: the threshold itself counts as large.
IsLargeInclusive(filesize) == filesize >= LargeThreshold

\* lib.rs:81
IsLarge(filesize) == filesize > LargeThreshold

\* ------------------------------------------------------------------ state
Inputs == 1..Len(paths)

ListsUpTo(m) == UNION { [1..n -> Files] : n \in 1..m }

InputLists == ListsUpTo(MaxInputs)

\* main.rs:17-23: the options are parsed, the semaphore is created with
\* max_job_count units, and the scope's closure is about to start the loop
Start(lists) ==
    /\ paths \in lists
    /\ max_job_count \in 1..MaxJobs
    /\ use_mmap \in BOOLEAN
    /\ num_threads \in 1..MaxThreads
    /\ io_lock = max_job_count
    /\ idx = 1
    /\ pc = "next"
    /\ held = [i \in Inputs |-> 0]
    /\ task = [i \in Inputs |-> "none"]
    /\ checksum = [i \in Inputs |-> NoResult]
    /\ strategy = [i \in Inputs |-> "none"]
    /\ ret = [i \in Inputs |-> "none"]
    /\ reports = [i \in Inputs |-> <<>>]

Init == Start(InputLists)

\* rayon::scope runs its closure on a worker thread: the dispatcher occupies
\* one thread until the closure ends, and that thread then runs tasks too.
DispatcherActive == pc \notin {"join", "exit"}

OnThread == { i \in Inputs : task[i] \in {"running", "hashed", "released"} }

Busy == Cardinality(OnThread) + (IF DispatcherActive THEN 1 ELSE 0)

\* lib.rs:138-145: one line on stdout or, through print_error, on stderr
print_checksum(rep, i, result) == [rep EXCEPT ![i] = Append(@, result)]

\* lib.rs:148-157
print_error(rep, i, e) == [rep EXCEPT ![i] = Append(@, Err(e))]

\* ------------------------------------------------- do_checksum, stdin path
\* lib.rs:68-70
StdinHash ==
    /\ pc = "next"
    /\ idx \in Inputs
    /\ IsStdin(paths[idx])
    /\ checksum' = [checksum EXCEPT ![idx] = b3sum_large(paths[idx], FALSE, FALSE)]
    /\ pc' = "stdin_print"
    /\ strategy' = [strategy EXCEPT ![idx] = LargeStrategy(FALSE, FALSE)]
    /\ UNCHANGED <<config, io_lock, idx, held, task, ret, reports>>

\* lib.rs:71-72
StdinPrint ==
    /\ pc = "stdin_print"
    /\ reports' = print_checksum(reports, idx, checksum[idx])
    /\ ret' = [ret EXCEPT ![idx] = "Ok"]
    /\ pc' = "returned"
    /\ UNCHANGED <<config, strategy, io_lock, idx, held, task, checksum>>

\* -------------------------------------------------- do_checksum, file path
\* lib.rs:78  io_lock.acquire()
Acquire ==
    /\ pc = "next"
    /\ idx \in Inputs
    /\ ~IsStdin(paths[idx])
    /\ CanAcquire(io_lock, 1)
    /\ io_lock' = io_lock - 1
    /\ held' = [held EXCEPT ![idx] = 1]
    /\ pc' = "open"
    /\ UNCHANGED <<config, strategy, idx, task, checksum, ret, reports>>

\* lib.rs:79-80  File::open(&path)? / file.metadata()?: the `?` returns the
\* error at once; nothing is released on that path.
OpenFail ==
    /\ pc = "open"
    /\ ~paths[idx].openOk
    /\ ret' = [ret EXCEPT ![idx] = "Err"]
    /\ pc' = "returned"
    /\ UNCHANGED <<config, strategy, io_lock, idx, held, task, checksum, reports>>

\* lib.rs:79-81, 88-96  a small file: spawn the task and return Ok
OpenSmall ==
    /\ pc = "open"
    /\ paths[idx].openOk
    /\ ~IsLarge(paths[idx].len)
    /\ task' = [task EXCEPT ![idx] = "queued"]
    /\ ret' = [ret EXCEPT ![idx] = "Ok"]
    /\ pc' = "returned"
    /\ UNCHANGED <<config, strategy, io_lock, idx, held, checksum, reports>>

\* lib.rs:79-81  a large file
OpenLarge ==
    /\ pc = "open"
    /\ paths[idx].openOk
    /\ IsLarge(paths[idx].len)
    /\ pc' = "large_acquire"
    /\ UNCHANGED <<config, strategy, io_lock, idx, held, task, checksum, ret, reports>>

\* lib.rs:84  io_lock.acquire_many(max_job_count - 1)
LargeAcquire ==
    /\ pc = "large_acquire"
    /\ CanAcquire(io_lock, LargeExtra(max_job_count))
    /\ io_lock' = io_lock - LargeExtra(max_job_count)
    /\ held' = [held EXCEPT ![idx] = @ + LargeExtra(max_job_count)]
    /\ pc' = "large_hash"
    /\ UNCHANGED <<config, strategy, idx, task, checksum, ret, reports>>

\* lib.rs:85
LargeHash ==
    /\ pc = "large_hash"
    /\ checksum' = [checksum EXCEPT ![idx] = b3sum_large(paths[idx], TRUE, use_mmap)]
    /\ pc' = "large_release"
    /\ strategy' = [strategy EXCEPT ![idx] = LargeStrategy(TRUE, use_mmap)]
    /\ UNCHANGED <<config, io_lock, idx, held, task, ret, reports>>

\* Faulty variant: a failed hash returns early, before the release.
LargeReleasedIfOk(result, n) == IF result.ok THEN n ELSE 0

\* Faulty variant: the large job gives back only its second acquisition.
LargeReleasedExtra(result, n) == n - 1

\* lib.rs:85-86  release_many(max_job_count) follows b3sum_large whatever
\* its result
LargeReleased(result, n) == n

\* lib.rs:86  io_lock.release_many(max_job_count)
LargeRelease ==
    /\ pc = "large_release"
    /\ io_lock' = io_lock + LargeReleased(checksum[idx], max_job_count)
    /\ held' = [held EXCEPT ![idx] = @ - LargeReleased(checksum[idx], max_job_count)]
    /\ pc' = "large_print"
    /\ UNCHANGED <<config, strategy, idx, task, checksum, ret, reports>>

\* Faulty variant: a failed hash is propagated to the caller.
LargeReturnPropagates(result) == IF result.ok THEN "Ok" ELSE "Err"

\* lib.rs:87, 96  the result goes to print_checksum; the call returns Ok(())
LargeReturn(result) == "Ok"

\* lib.rs:87, 96
LargePrint ==
    /\ pc = "large_print"
    /\ reports' = print_checksum(reports, idx, checksum[idx])
    /\ ret' = [ret EXCEPT ![idx] = LargeReturn(checksum[idx])]
    /\ pc' = "returned"
    /\ UNCHANGED <<config, strategy, io_lock, idx, held, task, checksum>>

\* ------------------------------------------------------ the spawned task
\* lib.rs:89  a free worker thread picks the task up
TaskStart(i) ==
    /\ task[i] = "queued"
    /\ Busy < num_threads
    /\ task' = [task EXCEPT ![i] = "running"]
    /\ UNCHANGED <<config, strategy, io_lock, idx, pc, held, checksum, ret, reports>>

\* lib.rs:90
TaskHash(i) ==
    /\ task[i] = "running"
    /\ checksum' = [checksum EXCEPT ![i] = b3sum_small(paths[i])]
    /\ task' = [task EXCEPT ![i] = "hashed"]
    /\ strategy' = [strategy EXCEPT ![i] = SmallStrategy]
    /\ UNCHANGED <<config, io_lock, idx, pc, held, ret, reports>>

\* Faulty variant: a failed hash ends the task before the release.
TaskReleasedIfOk(result) == IF result.ok THEN 1 ELSE 0

\* lib.rs:90-91  release() follows b3sum_small whatever its result
TaskReleased(result) == 1

\* lib.rs:91  io_lock.release()
TaskRelease(i) ==
    /\ task[i] = "hashed"
    /\ io_lock' = io_lock + TaskReleased(checksum[i])
    /\ held' = [held EXCEPT ![i] = @ - TaskReleased(checksum[i])]
    /\ task' = [task EXCEPT ![i] = "released"]
    /\ UNCHANGED <<config, strategy, idx, pc, checksum, ret, reports>>

\* lib.rs:92
TaskPrint(i) ==
    /\ task[i] = "released"
    /\ reports' = print_checksum(reports, i, checksum[i])
    /\ task' = [task EXCEPT ![i] = "done"]
    /\ UNCHANGED <<config, strategy, io_lock, idx, pc, held, checksum, ret>>

\* ------------------------------------------------------------------- main
\* Faulty variant: the caller reports whatever do_checksum returned.
CallerPrintsAlways(r) == TRUE

\* main.rs:25  if let Err(err) = do_checksum(..)
CallerPrints(r) == r = "Err"

\* main.rs:25-34  the rest of the loop body, then the next path
MainHandle ==
    /\ pc = "returned"
    /\ reports' = IF CallerPrints(ret[idx])
                  THEN print_error(reports, idx, "open")
                  ELSE reports
    /\ idx' = idx + 1
    /\ pc' = "next"
    /\ UNCHANGED <<config, strategy, io_lock, held, task, checksum, ret>>

\* main.rs:24, 35  the list is exhausted: the closure of rayon::scope ends
LoopEnd ==
    /\ pc = "next"
    /\ idx = Len(paths) + 1
    /\ pc' = "join"
    /\ UNCHANGED <<config, strategy, io_lock, idx, held, task, checksum, ret, reports>>

\* Faulty variant: the scope returns without joining its tasks.
ScopeMayReturnNoJoin == TRUE

\* rayon::scope returns once every task spawned on it has finished
ScopeMayReturn == \A i \in Inputs : task[i] \in {"none", "done"}

\* main.rs:35-36  the scope returns and main ends
ScopeReturn ==
    /\ pc = "join"
    /\ ScopeMayReturn
    /\ pc' = "exit"
    /\ UNCHANGED <<config, strategy, io_lock, idx, held, task, checksum, ret, reports>>

Dispatcher ==
    \/ StdinHash \/ StdinPrint
    \/ Acquire \/ OpenFail \/ OpenSmall \/ OpenLarge
    \/ LargeAcquire \/ LargeHash \/ LargeRelease \/ LargePrint
    \/ MainHandle \/ LoopEnd \/ ScopeReturn

Task(i) == TaskStart(i) \/ TaskHash(i) \/ TaskRelease(i) \/ TaskPrint(i)

Next == Dispatcher \/ \E i \in 1..MaxInputs : i \in Inputs /\ Task(i)

Spec == Init /\ [][Next]_vars

\* Every runnable step is eventually taken: the dispatcher and each task run
\* on threads of the pool, and a blocked acquire is woken by every release.
Fairness ==
    /\ WF_vars(Dispatcher)
    /\ \A i \in 1..MaxInputs : WF_vars(i \in Inputs /\ Task(i))

FairInit == Start(ListsUpTo(MaxFairInputs))

FairSpec == FairInit /\ [][Next]_vars /\ Fairness

\* ------------------------------------------------------------ vocabulary
Exited == pc = "exit"

Reported(i) == reports[i] # <<>>

AllOpenOK == \A i \in Inputs : paths[i].openOk

\* the job of input i is dispatched and has not yet returned or finished
Live(i) ==
    \/ i = idx /\ pc \in {"stdin_print", "open", "large_acquire", "large_hash",
                          "large_release", "large_print"}
    \/ task[i] \in {"queued", "running", "hashed", "released"}

RECURSIVE SumHeld(_)
SumHeld(S) ==
    IF S = {} THEN 0
    ELSE LET i == CHOOSE x \in S : TRUE IN held[i] + SumHeld(S \ {i})

\* ---------------------------------------------------------------------- C1
\* C1: when open or stat fails after the acquire of 1 unit, the unit is
\* released before the error is reported: once the failed dispatch has
\* returned, the job holds nothing.
C1_OpenFailureReleasesUnit ==
    \A i \in Inputs : ret[i] = "Err" => held[i] = 0

\* ---------------------------------------------------------------------- C2
\* the file cannot be opened, or a read of it fails
Fails(f) == ~f.openOk \/ f.failAt # -1

FailedBefore(j) == \E i \in Inputs : i < j /\ Fails(paths[i])

\* C2: a file's failure never starves the pool: with at least two worker
\* threads and fair scheduling, every input that follows a failed one is
\* eventually dispatched and eventually reports its outcome.
C2_FailureNeverStarves ==
    (num_threads >= 2) ~> (\A j \in Inputs : FailedBefore(j) => Reported(j))

\* ---------------------------------------------------------------------- C3
\* C3: every input has at most one reported outcome at any time, and exactly
\* one when the process exits.
C3_ExactlyOneOutcome ==
    /\ \A i \in Inputs : Len(reports[i]) <= 1
    /\ Exited => \A i \in Inputs : Len(reports[i]) = 1

C3_Witness ==
    /\ Exited
    /\ \E i \in Inputs : ~paths[i].openOk
    /\ \E i \in Inputs : IsLarge(paths[i].len) /\ Reported(i)
    /\ \E i \in Inputs : task[i] = "done"

\* ---------------------------------------------------------------------- C4
\* C4: when the scope returns, every spawned small task has hashed, released
\* its unit and reported; and if every file opened, the pool is full again.
C4_ScopeWaitsForTasks ==
    Exited =>
        /\ \A i \in Inputs :
              /\ task[i] \in {"none", "done"}
              /\ task[i] = "done" =>
                    checksum[i] # NoResult /\ held[i] = 0 /\ Len(reports[i]) = 1
        /\ AllOpenOK => io_lock = max_job_count

C4_Witness ==
    /\ Exited
    /\ AllOpenOK
    /\ Cardinality({ i \in Inputs : task[i] = "done" }) >= 2

\* ---------------------------------------------------------------------- C5
Terminated == Exited /\ \A i \in Inputs : Reported(i) /\ ~Live(i)

\* C5: deadlock freedom: with at least two worker threads, fair scheduling
\* and files that all open, the run terminates with all jobs completed, for
\* every job_count (1 included).
C5_DeadlockFree ==
    (num_threads >= 2 /\ AllOpenOK) ~> Terminated

C5_Witness ==
    /\ Terminated
    /\ num_threads >= 2
    /\ AllOpenOK
    /\ max_job_count = 1
    /\ \E i, j \in Inputs : i < j /\ task[i] = "done" /\ IsLarge(paths[j].len)

\* ---------------------------------------------------------------------- C6
\* the files that are opened and not yet past their job's release
MidRead ==
    { i \in Inputs :
        \/ task[i] \in {"queued", "running", "hashed"}
        \/ i = idx /\ pc \in {"large_acquire", "large_hash", "large_release"} }

\* C6: the number of files that are mid-read never exceeds job_count.
C6_MidReadAtMostJobCount == Cardinality(MidRead) <= max_job_count

C6_Witness ==
    /\ max_job_count >= 2
    /\ Cardinality({ i \in Inputs : task[i] = "running" }) = max_job_count

\* ---------------------------------------------------------------------- C7
\* C7: pool conservation: the units held by live jobs plus the available
\* count equal job_count, and the available count stays within 0..job_count.
C7_PoolConservation ==
    /\ SumHeld({ i \in Inputs : Live(i) }) + io_lock = max_job_count
    /\ io_lock >= 0
    /\ io_lock <= max_job_count

\* ---------------------------------------------------------------------- C8
\* C8: while a large job is hashing (after its second acquire, before its
\* release) it holds all units: nothing is available, no other job holds a
\* unit, and no small job is queued or hashing.
C8_LargeExclusive ==
    pc \in {"large_hash", "large_release"} =>
        /\ held[idx] = max_job_count
        /\ io_lock = 0
        /\ \A j \in Inputs \ {idx} :
              held[j] = 0 /\ task[j] \in {"none", "released", "done"}

C8_Witness ==
    /\ pc = "large_hash"
    /\ max_job_count >= 2
    /\ \E j \in Inputs : j < idx /\ task[j] = "released"

\* ---------------------------------------------------------------------- C9
\* C9: do_checksum returns Err exactly for a file that fails to open or
\* stat; a failed hash is reported by the job and the call returns Ok.
C9_ErrOnlyOnOpenFailure ==
    \A i \in Inputs :
        ret[i] # "none" =>
            /\ ret[i] = "Err" <=> ~paths[i].openOk
            /\ (checksum[i] # NoResult /\ ~checksum[i].ok /\ Reported(i)) =>
                  ret[i] = "Ok" /\ reports[i] = <<checksum[i]>>

C9_Witness ==
    \E i \in Inputs :
        /\ IsLarge(paths[i].len)
        /\ ret[i] = "Ok"
        /\ ~checksum[i].ok
        /\ Reported(i)

\* --------------------------------------------------------------------- C10
\* what a file's contents alone determine
OutcomeOfContents(f) ==
    IF ~f.openOk THEN Err("open")
    ELSE IF f.failAt # -1 THEN Err("read")
    ELSE Ok(f.path, f.len)

\* the same digest, or an error both (whatever the error's text)
SameOutcome(a, b) == a.ok = b.ok /\ a.name = b.name /\ a.bytes = b.bytes

\* what a file's contents and the mmap option determine
OutcomeOf(f, mmap) ==
    IF f.openOk /\ ~IsStdin(f) /\ IsLarge(f.len) /\ mmap
    THEN IF f.mapOk THEN Ok(f.path, f.len) ELSE Err("mmap")
    ELSE OutcomeOfContents(f)

\* C10 as stated: in every terminating run each input's outcome is the one
\* its contents determine, whatever the interleaving, the thread count,
\* job_count and the mmap option.
C10_OutcomeOfContentsOnly ==
    Exited =>
        \A i \in Inputs :
            /\ Len(reports[i]) = 1
            /\ SameOutcome(reports[i][1], OutcomeOfContents(paths[i]))

\* C10 amended: in every terminating run each input's outcome is the one its
\* contents and the mmap option determine, whatever the interleaving, the
\* thread count and job_count.
C10_OutcomeDeterministic ==
    Exited => \A i \in Inputs : reports[i] = <<OutcomeOf(paths[i], use_mmap)>>

C10_Witness ==
    /\ Exited
    /\ use_mmap
    /\ \E i \in Inputs : paths[i].path = "noMap" /\ reports[i] = <<Err("mmap")>>
    /\ \E i \in Inputs : task[i] = "done" /\ reports[i] = <<Ok("empty", 0)>>

\* --------------------------------------------------------------------- C11
\* The hashing tests of lib.rs (b3_test_bytes, b3_test_file_small,
\* b3_test_file_large, b3_test_file_mmap and their _2 variants), for any
\* content: the same bytes are given to b3sum_small, to b3sum_large reading
\* and to b3sum_large mapping.
HashTests == {"b3sum_small", "b3sum_large", "b3sum_large_mmap"}

HashLens ==
    { k * ReadBufLen + d : k \in 0..MaxChunks, d \in {0, 1, 11} }
        \cup { k * ReadBufLen - 1 : k \in 1..MaxChunks }

HashFiles ==
    { ShortReads(File("bytes", TRUE, len, -1, mapOk), readMax) :
        len \in HashLens, mapOk \in BOOLEAN,
        readMax \in {ReadBufLen, ReadBufLen \div 2 + 1} }

\* lib.rs:238-257  make_temp_file(contents)
HashInit ==
    /\ paths \in { <<f>> : f \in HashFiles }
    /\ max_job_count = 1
    /\ use_mmap = FALSE
    /\ num_threads = 1
    /\ io_lock = 1
    /\ idx = 1
    /\ pc = "test"
    /\ held = <<0>>
    /\ task = <<"none">>
    /\ checksum = [t \in HashTests |-> NoResult]
    /\ strategy = [t \in HashTests |-> "none"]
    /\ ret = <<"none">>
    /\ reports = <<<<>>>>

\* lib.rs:260-267  b3sum_small(&mut file)
TestSmall ==
    /\ pc = "test"
    /\ strategy["b3sum_small"] = "none"
    /\ checksum' = [checksum EXCEPT !["b3sum_small"] = b3sum_small(paths[1])]
    /\ strategy' = [strategy EXCEPT !["b3sum_small"] = SmallStrategy]
    /\ UNCHANGED <<config, io_lock, idx, pc, held, task, ret, reports>>

\* lib.rs:270-287  b3sum_large(Input::File(file), false)
TestLarge ==
    /\ pc = "test"
    /\ strategy["b3sum_large"] = "none"
    /\ checksum' = [checksum EXCEPT !["b3sum_large"] = b3sum_large(paths[1], TRUE, FALSE)]
    /\ strategy' = [strategy EXCEPT !["b3sum_large"] = LargeStrategy(TRUE, FALSE)]
    /\ UNCHANGED <<config, io_lock, idx, pc, held, task, ret, reports>>

\* lib.rs:290-307  b3sum_large(Input::File(file), true)
TestMmap ==
    /\ pc = "test"
    /\ strategy["b3sum_large_mmap"] = "none"
    /\ checksum' = [checksum EXCEPT !["b3sum_large_mmap"] = b3sum_large(paths[1], TRUE, TRUE)]
    /\ strategy' = [strategy EXCEPT !["b3sum_large_mmap"] = LargeStrategy(TRUE, TRUE)]
    /\ UNCHANGED <<config, io_lock, idx, pc, held, task, ret, reports>>

HashNext == TestSmall \/ TestLarge \/ TestMmap

HashSpec == HashInit /\ [][HashNext]_vars

\* the digest of all the bytes of f, in order
DigestOf(f) == Ok(f.path, f.len)

\* C11: for every content, b3sum_small, b3sum_large reading 2 MiB at a time
\* and b3sum_large over 4 MiB chunks of the mapping each give the hasher
\* exactly the content's bytes in order, so the three digests are the digest
\* of the content (of the empty content when it is empty).
C11_SameDigestOnEveryPath ==
    \A t \in HashTests :
        (strategy[t] # "none" /\ (t = "b3sum_large_mmap" => paths[1].mapOk)) =>
            checksum[t] = DigestOf(paths[1])

C11_Witness ==
    /\ \A t \in HashTests : strategy[t] # "none" /\ checksum[t].ok
    /\ checksum["b3sum_small"] = checksum["b3sum_large"]
    /\ checksum["b3sum_large"] = checksum["b3sum_large_mmap"]
    /\ paths[1].len = 2 * MapChunkLen + 11
    /\ paths[1].readMax < ReadBufLen

\* --------------------------------------------------------------------- C12
\* the dispatcher is about to process, or is processing, the stdin marker
AtStdin == idx \in Inputs /\ paths[idx].path = "-" /\ pc \in {"next", "stdin_print"}

\* the dispatcher takes a step of the processing of the stdin marker
StdinStep == AtStdin /\ pc' # pc

\* C12: processing "-" bypasses the pool: an input "-" never holds a unit and
\* is never classified (no task, no large-file step); its processing never
\* waits for the pool; and its steps leave the available count and every
\* job's units unchanged.
C12_StdinBypassesPool ==
    /\ [](\A i \in Inputs : paths[i].path = "-" =>
              held[i] = 0 /\ task[i] = "none")
    /\ []((AtStdin /\ pc = "next") => ENABLED StdinHash)
    /\ [][StdinStep => io_lock' = io_lock /\ held' = held /\ task' = task]_vars

C12_Witness ==
    /\ pc = "stdin_print"
    /\ io_lock = 0
    /\ \E i \in Inputs : held[i] = 1 /\ task[i] = "running"

\* --------------------------------------------------------------------- C13
\* the hash of input i was computed and failed (a read or the mapping)
HashFailed(i) == strategy[i] # "none" /\ ~checksum[i].ok

\* C13: a job whose hash fails releases its units as a successful one does,
\* before the error is reported: once reported it holds nothing, and when
\* every file opened the pool is full again at exit.
C13_ReadFailureReleases ==
    /\ \A i \in Inputs : (HashFailed(i) /\ Reported(i)) => held[i] = 0
    /\ (Exited /\ AllOpenOK) => io_lock = max_job_count

C13_Witness ==
    /\ Exited
    /\ AllOpenOK
    /\ io_lock = max_job_count
    /\ \E i \in Inputs : HashFailed(i) /\ task[i] = "done" /\ reports[i] = <<Err("read")>>
    /\ \E i \in Inputs : HashFailed(i) /\ IsLarge(paths[i].len) /\ Reported(i)

\* --------------------------------------------------------------------- C14
\* input i is a file that opens and is longer than the threshold
LargeFile(i) ==
    paths[i].openOk /\ paths[i].path # "-" /\ paths[i].len > LargeThreshold

\* something has happened to input i
Touched(i) ==
    \/ held[i] > 0 \/ task[i] # "none" \/ strategy[i] # "none"
    \/ ret[i] # "none" \/ Reported(i)

\* C14: inputs are dispatched in list order by one dispatcher (nothing has
\* happened to an input beyond the dispatcher's position, and do_checksum has
\* returned for every input before it), and a large job is synchronous:
\* when the dispatcher is past a large input, that input has hashed,
\* released all its units and reported.
C14_DispatchInOrder ==
    \A i \in Inputs :
        /\ i > idx => ~Touched(i)
        /\ i < idx => ret[i] # "none"
        /\ (i < idx /\ LargeFile(i)) =>
              strategy[i] # "none" /\ held[i] = 0 /\ Len(reports[i]) = 1

\* after a small input the next one is dispatched before the small job has
\* hashed; and an input follows a large one that has finished
C14_Witness ==
    /\ \E i \in Inputs : i < idx /\ task[i] = "queued" /\ strategy[i] = "none"
    /\ \E i \in Inputs : i < idx /\ LargeFile(i)
    /\ idx \in Inputs /\ held[idx] = 1

\* --------------------------------------------------------------------- C15
\* input i is a file that opens: its job hashes, releases and reports
Hashes(i) == paths[i].openOk /\ paths[i].path # "-"

\* C15: within a small task and within a large job the order is hash,
\* release, report: every release comes after the job's hash and before its
\* report, so an outcome is reported only by a job that holds nothing; and
\* the unit of a small file is released by a step of its task, not by the
\* dispatcher.
C15_HashReleaseReport ==
    /\ [](\A i \in Inputs :
             (Hashes(i) /\ Reported(i)) => held[i] = 0 /\ strategy[i] # "none")
    /\ [][\A i \in Inputs :
             held'[i] < held[i] =>
                /\ strategy[i] # "none"
                /\ ~Reported(i)
                /\ paths[i].len <= LargeThreshold =>
                      pc' = pc /\ idx' = idx /\ task[i] = "hashed"]_vars

C15_Witness ==
    \E i \in Inputs :
        /\ task[i] = "released"
        /\ strategy[i] = SmallStrategy
        /\ held[i] = 0
        /\ ~Reported(i)
        /\ i < idx

\* --------------------------------------------------------------------- C16
\* the large files that hold at least one unit
LargeHolders == { i \in Inputs : LargeFile(i) /\ held[i] > 0 }

\* C16: while a large job waits for its remaining units nothing is acquired
\* (the available count does not shrink and no job's units grow), and at
\* most one large job holds units at any time.
C16_OneLargeAtATime ==
    /\ [](Cardinality(LargeHolders) <= 1)
    /\ [][(pc = "large_acquire" /\ pc' = "large_acquire") =>
             /\ io_lock' >= io_lock
             /\ \A j \in Inputs : held'[j] <= held[j]]_vars

C16_Witness ==
    /\ pc = "large_acquire"
    /\ held[idx] = 1
    /\ io_lock < max_job_count - 1
    /\ \E j \in Inputs : j < idx /\ task[j] = "running" /\ held[j] = 1

\* --------------------------------------------------------------------- C17
\* the dispatcher is in the large-file branch of do_checksum for input i
InLargeBranch(i) ==
    i = idx /\ pc \in {"large_acquire", "large_hash", "large_release", "large_print"}

\* C17: a file is handled as large exactly when its length exceeds 131072
\* and as small otherwise (length 0 included), once and for all; a small
\* job never holds more than 1 unit and a large job holds job_count units
\* while it hashes.
C17_SizeClass ==
    \A i \in Inputs :
        /\ task[i] # "none" =>
              /\ paths[i].len <= LargeThreshold
              /\ held[i] <= 1
              /\ strategy[i] \in {"none", SmallStrategy}
        /\ InLargeBranch(i) => paths[i].len > LargeThreshold /\ task[i] = "none"
        /\ (i < idx /\ Hashes(i)) =>
              /\ task[i] # "none" <=> paths[i].len <= LargeThreshold
              /\ strategy[i] \in {"chunked_read", "chunked_mmap"} <=>
                    paths[i].len > LargeThreshold
        /\ (i = idx /\ pc \in {"large_hash", "large_release"}) =>
              held[i] = max_job_count

C17_Witness ==
    /\ \E i \in Inputs : paths[i].len = LargeThreshold /\ task[i] = "done"
    /\ \E i \in Inputs : paths[i].len = 0 /\ paths[i].openOk /\ task[i] = "done"
    /\ \E i \in Inputs :
          /\ paths[i].len = LargeThreshold + 1
          /\ pc = "large_hash" /\ i = idx /\ held[i] = max_job_count
    /\ max_job_count >= 2

\* --------------------------------------------------------------------- C18
\* C18: standard input is hashed by reading it whole and hashing it in one
\* call, not chunk by chunk, and never through a memory mapping.
C18_StdinBufferedWhole ==
    \A i \in Inputs :
        (paths[i].path = "-" /\ strategy[i] # "none") => strategy[i] = SmallStrategy

\* --------------------------------------------------------------------- C19
\* every read the hashing of input i made succeeded, to the end of the input
AllReadsOk(i) ==
    IF strategy[i] = "chunked_mmap" THEN paths[i].mapOk ELSE paths[i].failAt = -1

\* C19: a digest is computed and reported only when every read succeeded and
\* the input was consumed to its end, and it is then the digest of the whole
\* input; when a read or the mapping fails the outcome is an error, whatever
\* was hashed before.
C19_NoPartialDigest ==
    \A i \in Inputs :
        /\ strategy[i] # "none" =>
              /\ checksum[i].ok <=> AllReadsOk(i)
              /\ checksum[i].ok => checksum[i] = DigestOf(paths[i])
        /\ \A k \in 1..Len(reports[i]) :
              reports[i][k].ok =>
                  strategy[i] # "none" /\ AllReadsOk(i) /\ reports[i][k] = DigestOf(paths[i])

\* a read fails after a first chunk was hashed, and an error is reported
C19_Witness ==
    \E i \in Inputs :
        /\ strategy[i] = "chunked_read"
        /\ paths[i].failAt >= ReadBufLen
        /\ reports[i] = <<Err("read")>>

====
